---- MODULE Spec2Model ----
(***************************************************************************)
(* Daily stock / FX report job (script.py).                                *)
(*                                                                         *)
(* Numbers.  Close prices are non-negative integers counting thousandths   *)
(* of a currency unit.  A percentage change is kept exactly, as a signed   *)
(* fraction num/den, until round(x, 2) turns it into a signed count of     *)
(* hundredths of a percent.  The closes come out of a pandas Series, so    *)
(* they are numpy.float64 and follow IEEE-754: x / 0 is inf, 0 / 0 is nan, *)
(* and neither raises.  A float value is a record                          *)
(*     [k |-> "fin" | "inf" | "nan", neg |-> sign bit, ...].               *)
(* Ties of round() are resolved half-to-even on the exact decimal value.   *)
(*                                                                         *)
(* Optional values (Python None) are sequences of length 0 or 1.           *)
(***************************************************************************)
EXTENDS Integers, Sequences, FiniteSets

VARIABLES
    pc,        \* position of main(): "kr","us","fx","header","send","fallback","done","crashed"
    idx,       \* number of symbols of the current group already iterated
    outcomes,  \* per group: how many calls returned data / returned an error
    lines,     \* per group: how many success / failure lines were appended
    parts,     \* message_parts: the groups joined so far, in order
    sends,     \* outcome of each send_to_slack call made by main(), in order
    posts,     \* number of requests.post calls made
    raised,    \* exception that left main(), "" when none
    qfn,       \* loop body under test: "none", "kr", "us", "fx"
    qreq,      \* provider behaviour the call met
    qout,      \* what the iteration did: the call's result, the line appended, the exception
    sfn,       \* "none" or "send_to_slack"
    sreq,      \* webhook behaviour the call met
    sres       \* what send_to_slack did

vars == <<pc, idx, outcomes, lines, parts, sends, posts, raised,
          qfn, qreq, qout, sfn, sreq, sres>>

(***************************************************************************)
(* Program constants                                                       *)
(***************************************************************************)
Days == 5

KR_TICKERS == 4

US_TICKERS == 8

FX_TICKERS == 18

Groups == {"kr", "us", "fx"}

GroupSize(g) == IF g = "kr" THEN KR_TICKERS ELSE IF g = "us" THEN US_TICKERS ELSE FX_TICKERS

(***************************************************************************)
(* Bounds of the model                                                     *)
(***************************************************************************)
MaxLen == 7

\* close values the provider may report (thousandths)
Prices == {0, 100, 20001, 20002}

\* volume series the provider may report, after dropna()
VolumeSeries == {<< >>, <<0>>, <<7, 1200>>}

(***************************************************************************)
(* Floats                                                                  *)
(***************************************************************************)
Abs(x) == IF x < 0 THEN -x ELSE x

\* n/d (n >= 0, d > 0) rounded to the nearest integer, ties to even
RoundHalfEven(n, d) ==
    LET q == n \div d
        r == n % d
    IN  IF 2 * r < d THEN q
        ELSE IF 2 * r > d THEN q + 1
        ELSE IF q % 2 = 0 THEN q ELSE q + 1

\* the literal 0.0
ZeroFloat == [k |-> "fin", neg |-> FALSE, num |-> 0, den |-> 1]

\* (a - b) / b * 100 on numpy.float64 operands
PctChange(a, b) ==
    IF b = 0
    THEN IF a - b > 0 THEN [k |-> "inf", neg |-> FALSE, num |-> 0, den |-> 1]
         ELSE IF a - b < 0 THEN [k |-> "inf", neg |-> TRUE, num |-> 0, den |-> 1]
         ELSE [k |-> "nan", neg |-> FALSE, num |-> 0, den |-> 1]
    ELSE [k |-> "fin", neg |-> (a - b < 0), num |-> Abs(a - b) * 100, den |-> b]

\* round(x, 2): hundredths; inf and nan pass through, the sign bit is kept
Round2(x) ==
    IF x.k = "fin"
    THEN [k |-> "fin", neg |-> x.neg, h |-> RoundHalfEven(x.num * 100, x.den)]
    ELSE [k |-> x.k, neg |-> x.neg, h |-> 0]

\* x > 0 and x < 0 on a rounded float
Gt0(x) == \/ x.k = "inf" /\ ~x.neg
          \/ x.k = "fin" /\ ~x.neg /\ x.h > 0

Lt0(x) == \/ x.k = "inf" /\ x.neg
          \/ x.k = "fin" /\ x.neg /\ x.h > 0

(***************************************************************************)
(* pandas Series                                                           *)
(***************************************************************************)
\* s.iloc[i], i counted from the end when negative; IndexError out of range
Iloc(s, i) ==
    LET p == IF i < 0 THEN Len(s) + i + 1 ELSE i + 1
    IN  IF p >= 1 /\ p <= Len(s)
        THEN [ok |-> TRUE, v |-> s[p]]
        ELSE [ok |-> FALSE, v |-> 0]

(***************************************************************************)
(* Provider metadata (ticker.info)                                         *)
(***************************************************************************)
\* a value of the info dict: key absent, null, a non-numeric string,
\* a finite number, or Infinity
Absent == [k |-> "absent", v |-> 0]

Null == [k |-> "null", v |-> 0]

NonNumeric == [k |-> "str", v |-> 0]

Num(v) == [k |-> "num", v |-> v]

Infinity == [k |-> "inf", v |-> 0]

\* info.get(key, 0.0)
InfoGet(m) == IF m.k = "absent" THEN Num(0) ELSE m

\* float(m): TypeError on None, ValueError on a non-numeric string
Float(m) ==
    IF m.k = "null" THEN [exc |-> "TypeError", val |-> [k |-> "fin", v |-> 0]]
    ELSE IF m.k = "str" THEN [exc |-> "ValueError", val |-> [k |-> "fin", v |-> 0]]
    ELSE IF m.k = "inf" THEN [exc |-> "", val |-> [k |-> "inf", v |-> 0]]
    ELSE [exc |-> "", val |-> [k |-> "fin", v |-> m.v]]

Infos ==
    { [raises |-> TRUE,  high |-> Absent,     low |-> Absent],
      [raises |-> FALSE, high |-> Absent,     low |-> Absent],
      [raises |-> FALSE, high |-> Num(52000), low |-> Num(100)],
      [raises |-> FALSE, high |-> Null,       low |-> Num(100)],
      [raises |-> FALSE, high |-> Num(52000), low |-> NonNumeric],
      [raises |-> FALSE, high |-> Infinity,   low |-> Num(100)],
      [raises |-> FALSE, high |-> Num(52000), low |-> Infinity] }

NoInfo == [raises |-> FALSE, high |-> Absent, low |-> Absent]

(***************************************************************************)
(* Results of get_price_data / get_fx_data                                 *)
(***************************************************************************)
\* return record, None
Ok(rec) == [data |-> <<rec>>, error |-> << >>, raised |-> ""]

\* return None, reason
Fail(msg, exc) == [data |-> << >>, error |-> <<[msg |-> msg, exc |-> exc]>>, raised |-> ""]

\* the exception leaves the function
Propagate(exc) == [data |-> << >>, error |-> << >>, raised |-> exc]

\* a handler that catches only the provider's own fetch error
CaughtFetchOnly(exc) == exc = "FetchError"

\* "except Exception": every exception the body raises is caught
Caught(exc) == TRUE

Handle(msg, exc) == IF Caught(exc) THEN Fail(msg, exc) ELSE Propagate(exc)

Insufficient == Fail("insufficient", "")

\* the length test with the threshold one too low
TooShortBelowOne(s) == Len(s) = 0 \/ Len(s) < 1

\* "close_prices.empty or len(close_prices) < 2"
TooShort(s) == Len(s) = 0 \/ Len(s) < 2

\* the week-ago lookup reading one row too late (iloc[-days])
WeekAgoOneLate(s, days) ==
    IF Len(s) >= days + 1
    THEN LET e == Iloc(s, -days)
         IN  [exc |-> IF e.ok THEN "" ELSE "IndexError", val |-> IF e.ok THEN <<e.v>> ELSE << >>]
    ELSE [exc |-> "", val |-> << >>]

\* "len(close_prices) >= days + 1" and close_prices.iloc[-days - 1]
WeekAgo(s, days) ==
    IF Len(s) >= days + 1
    THEN LET e == Iloc(s, -days - 1)
         IN  [exc |-> IF e.ok THEN "" ELSE "IndexError", val |-> IF e.ok THEN <<e.v>> ELSE << >>]
    ELSE [exc |-> "", val |-> << >>]

\* "... if week_ago is not None and week_ago != 0 else 0.0"
WeeklyChange(cur, wk) ==
    IF wk # << >> /\ wk[1] # 0 THEN PctChange(cur, wk[1]) ELSE ZeroFloat

get_price_data(inp, days) ==
    LET M == "yfinance" IN
    IF inp.frame = "raise" THEN Handle(M, "FetchError")
    ELSE IF inp.frame = "nocols" THEN Handle(M, "AttributeError")
    ELSE
    LET close_prices == inp.close
        volumes == inp.volume
    IN
    IF TooShort(close_prices) THEN Insufficient
    ELSE
    LET cur == Iloc(close_prices, -1)
        yes == Iloc(close_prices, -2)
        wk  == WeekAgo(close_prices, days)
    IN
    IF ~cur.ok \/ ~yes.ok \/ wk.exc # "" THEN Handle(M, "IndexError")
    ELSE IF inp.info.raises THEN Handle(M, "InfoError")
    ELSE
    LET high == InfoGet(inp.info.high)
        low  == InfoGet(inp.info.low)
        vol  == Iloc(volumes, -1)
    IN
    IF ~vol.ok THEN Handle(M, "IndexError")
    ELSE
    LET daily  == PctChange(cur.v, yes.v)
        weekly == WeeklyChange(cur.v, wk.val)
        flow   == Float(low)
        fhigh  == Float(high)
    IN
    IF flow.exc # "" THEN Handle(M, flow.exc)
    ELSE IF fhigh.exc # "" THEN Handle(M, fhigh.exc)
    ELSE Ok([price |-> cur.v, low_52w |-> flow.val, high_52w |-> fhigh.val,
             daily_change |-> Round2(daily), weekly_change |-> Round2(weekly),
             volume |-> vol.v, rate |-> 0])

get_fx_data(inp, days) ==
    LET M == "yfinance FX" IN
    IF inp.frame = "raise" THEN Handle(M, "FetchError")
    ELSE IF inp.frame = "nocols" THEN Handle(M, "AttributeError")
    ELSE
    LET close_rates == inp.close IN
    IF TooShort(close_rates) THEN Insufficient
    ELSE
    LET cur == Iloc(close_rates, -1)
        yes == Iloc(close_rates, -2)
        wk  == WeekAgo(close_rates, days)
    IN
    IF ~cur.ok \/ ~yes.ok \/ wk.exc # "" THEN Handle(M, "IndexError")
    ELSE
    LET daily  == PctChange(cur.v, yes.v)
        weekly == WeeklyChange(cur.v, wk.val)
    IN
    Ok([price |-> 0, low_52w |-> [k |-> "fin", v |-> 0], high_52w |-> [k |-> "fin", v |-> 0],
        daily_change |-> Round2(daily), weekly_change |-> Round2(weekly),
        volume |-> 0, rate |-> RoundHalfEven(cur.v, 10)])

(***************************************************************************)
(* Rendering (closures of main)                                            *)
(***************************************************************************)
\* format_change with ">= 0" as its first test
format_change_geq(change_rate) ==
    IF ~Lt0(change_rate) THEN [indicator |-> "up", sign |-> "+"]
    ELSE [indicator |-> "down", sign |-> "-"]

\* the indicator and the sign character format_change prints
format_change(change_rate) ==
    IF Gt0(change_rate) THEN [indicator |-> "up", sign |-> "+"]
    ELSE IF Lt0(change_rate) THEN [indicator |-> "down", sign |-> "-"]
    ELSE [indicator |-> "flat",
          sign |-> IF change_rate.k = "fin" /\ change_rate.neg THEN "-" ELSE "+"]

NoChange == [indicator |-> "none", sign |-> ""]

\* round(x) to an int: OverflowError on infinity
RoundInt(x) ==
    IF x.k = "inf" THEN [exc |-> "OverflowError", v |-> 0]
    ELSE [exc |-> "", v |-> RoundHalfEven(x.v, 1000)]

format_stock_message(data, is_kr_stock) ==
    LET price == RoundInt([k |-> "fin", v |-> data.price])
        low   == RoundInt(data.low_52w)
        high  == RoundInt(data.high_52w)
        exc   == IF ~is_kr_stock THEN ""
                 ELSE IF price.exc # "" THEN price.exc
                 ELSE IF low.exc # "" THEN low.exc
                 ELSE high.exc
    IN  [exc |-> exc,
         line |-> [kind |-> "ok",
                   daily |-> format_change(data.daily_change),
                   weekly |-> format_change(data.weekly_change)]]

\* the line of the FX branch
FxLine(data) ==
    [kind |-> "ok",
     daily |-> format_change(data.daily_change),
     weekly |-> format_change(data.weekly_change)]

\* "[조회 실패] - {error}"
FailLine == [kind |-> "fail", daily |-> NoChange, weekly |-> NoChange]

\* "if data:" on a dict or None
Truthy(data) == data # << >>

\* one pass of the body of a stock loop of main
StockIteration(inp, is_kr_stock) ==
    LET r == get_price_data(inp, Days) IN
    IF r.raised # "" THEN [res |-> r, line |-> << >>, exc |-> r.raised]
    ELSE IF Truthy(r.data)
    THEN LET f == format_stock_message(r.data[1], is_kr_stock)
         IN  [res |-> r, line |-> IF f.exc = "" THEN <<f.line>> ELSE << >>, exc |-> f.exc]
    ELSE [res |-> r, line |-> <<FailLine>>, exc |-> ""]

\* one pass of the body of the FX loop of main
FxIteration(inp) ==
    LET r == get_fx_data(inp, Days) IN
    IF r.raised # "" THEN [res |-> r, line |-> << >>, exc |-> r.raised]
    ELSE IF Truthy(r.data) THEN [res |-> r, line |-> <<FxLine(r.data[1])>>, exc |-> ""]
    ELSE [res |-> r, line |-> <<FailLine>>, exc |-> ""]

(***************************************************************************)
(* Provider behaviours                                                     *)
(***************************************************************************)
SeqsUpTo(S, n) == UNION { [1..m -> S] : m \in 0..n }

\* every close series of up to MaxLen observations over Prices
Closes == SeqsUpTo(Prices, MaxLen)

\* the series of the documented scenarios (6 days; flat; previous close 0)
ScenarioCloses ==
    { <<100000, 98000, 102000, 101000, 99000, 103000>>,
      <<50000, 50000>>,
      <<0, 10000>> }

MaxShort == 2

ShortCloses == SeqsUpTo(Prices, MaxShort) \cup ScenarioCloses

GoodInfo == [raises |-> FALSE, high |-> Num(52000), low |-> Num(100)]

GoodVolume == <<7, 1200>>

NoFrame(shape) == [frame |-> shape, close |-> << >>, volume |-> << >>, info |-> NoInfo]

Frame(c, v, i) == [frame |-> "ok", close |-> c, volume |-> v, info |-> i]

\* what the market-data provider may answer to get_price_data: no frame, every
\* close series with sound volume and metadata, and every volume series and
\* metadata with the short and the scenario close series
PriceInputs ==
    {NoFrame("raise"), NoFrame("nocols")}
    \cup { Frame(c, GoodVolume, GoodInfo) : c \in Closes }
    \cup { Frame(c, v, i) : c \in ShortCloses, v \in VolumeSeries, i \in Infos }

\* what the provider may answer to get_fx_data
FxInputs ==
    {NoFrame("raise"), NoFrame("nocols")}
    \cup { Frame(c, << >>, NoInfo) : c \in Closes \cup ScenarioCloses }

NoOut == [res |-> Insufficient, line |-> << >>, exc |-> ""]

(***************************************************************************)
(* Specification of one loop pass: provider behaviour in, line out         *)
(***************************************************************************)
MainIdle ==
    /\ pc = "kr" /\ idx = 0
    /\ outcomes = [g \in Groups |-> [ok |-> 0, fail |-> 0]]
    /\ lines = [g \in Groups |-> [ok |-> 0, fail |-> 0]]
    /\ parts = << >> /\ sends = << >> /\ posts = 0 /\ raised = ""

QuoteIdle == qfn = "none" /\ qreq = NoFrame("raise") /\ qout = NoOut

SendIdle == sfn = "none" /\ sreq = [exc |-> FALSE, status |-> 200] /\ sres = [raised |-> "", posts |-> 0]

Init == MainIdle /\ QuoteIdle /\ SendIdle

mainVars == <<pc, idx, outcomes, lines, parts, sends, posts, raised>>

quoteVars == <<qfn, qreq, qout>>

sendVars == <<sfn, sreq, sres>>

KrPass ==
    /\ qfn = "none"
    /\ \E inp \in PriceInputs :
        /\ qfn' = "kr" /\ qreq' = inp /\ qout' = StockIteration(inp, TRUE)
    /\ UNCHANGED <<mainVars, sendVars>>

UsPass ==
    /\ qfn = "none"
    /\ \E inp \in PriceInputs :
        /\ qfn' = "us" /\ qreq' = inp /\ qout' = StockIteration(inp, FALSE)
    /\ UNCHANGED <<mainVars, sendVars>>

FxPass ==
    /\ qfn = "none"
    /\ \E inp \in FxInputs :
        /\ qfn' = "fx" /\ qreq' = inp /\ qout' = FxIteration(inp)
    /\ UNCHANGED <<mainVars, sendVars>>

NextQuote == KrPass \/ UsPass \/ FxPass

SpecQuote == Init /\ [][NextQuote]_vars

(***************************************************************************)
(* send_to_slack                                                           *)
(***************************************************************************)
\* response.raise_for_status(): HTTPError for 4xx and 5xx
RaiseForStatus(status) == status >= 400 /\ status < 600

\* the status test without the "!= 200" check
StatusRejectedByRaiseOnly(status) == RaiseForStatus(status)

\* raise_for_status() followed by "if response.status_code != 200: raise"
StatusRejected(status) == RaiseForStatus(status) \/ status # 200

\* one call: one requests.post; every RequestException becomes a ValueError
send_to_slack(resp) ==
    LET inner == IF resp.exc THEN "RequestException"
                 ELSE IF StatusRejected(resp.status) THEN "RequestException"
                 ELSE ""
    IN  [raised |-> IF inner = "RequestException" THEN "ValueError" ELSE inner, posts |-> 1]

StatusCodes == 100..599

TransportError == [exc |-> TRUE, status |-> 0]

WebhookResponses == {TransportError} \cup { [exc |-> FALSE, status |-> c] : c \in StatusCodes }

SendCall ==
    /\ sfn = "none"
    /\ \E resp \in WebhookResponses :
        /\ sfn' = "send_to_slack" /\ sreq' = resp /\ sres' = send_to_slack(resp)
    /\ UNCHANGED <<mainVars, quoteVars>>

NextSend == SendCall

SpecSend == Init /\ [][NextSend]_vars

(***************************************************************************)
(* main                                                                    *)
(***************************************************************************)
MainCloses == ScenarioCloses \cup {<< >>}

MainPriceInputs ==
    {NoFrame("raise"), NoFrame("nocols")}
    \cup { Frame(c, v, i) : c \in MainCloses, v \in VolumeSeries, i \in Infos }

MainFxInputs ==
    {NoFrame("raise"), NoFrame("nocols")}
    \cup { Frame(c, << >>, NoInfo) : c \in MainCloses }

MainWebhook == {TransportError} \cup { [exc |-> FALSE, status |-> c] : c \in {200, 201, 500} }

Bump(f, g, field) == [f EXCEPT ![g][field] = @ + 1]

\* the effect of one loop pass on main: a line appended, or the exception leaves main
LoopPass(g, o) ==
    /\ outcomes' = IF o.res.raised # "" THEN outcomes
                   ELSE Bump(outcomes, g, IF Truthy(o.res.data) THEN "ok" ELSE "fail")
    /\ IF o.exc # ""
       THEN /\ pc' = "crashed" /\ raised' = o.exc
            /\ UNCHANGED <<idx, lines>>
       ELSE /\ lines' = Bump(lines, g, o.line[1].kind)
            /\ idx' = idx + 1
            /\ UNCHANGED <<pc, raised>>
    /\ UNCHANGED <<parts, sends, posts, quoteVars, sendVars>>

\* message_parts.append("\n".join(...)) once the loop is over
Join(g, next) ==
    /\ pc = g /\ idx = GroupSize(g)
    /\ parts' = Append(parts, g)
    /\ pc' = next /\ idx' = 0
    /\ UNCHANGED <<outcomes, lines, sends, posts, raised, quoteVars, sendVars>>

KrStep ==
    /\ pc = "kr" /\ idx < KR_TICKERS
    /\ \E inp \in MainPriceInputs : LoopPass("kr", StockIteration(inp, TRUE))

KrJoin == Join("kr", "us")

UsStep ==
    /\ pc = "us" /\ idx < US_TICKERS
    /\ \E inp \in MainPriceInputs : LoopPass("us", StockIteration(inp, FALSE))

UsJoin == Join("us", "fx")

FxStep ==
    /\ pc = "fx" /\ idx < FX_TICKERS
    /\ \E inp \in MainFxInputs : LoopPass("fx", FxIteration(inp))

\* the last join, then the header and final_message
FxJoin == Join("fx", "send")

\* "except Exception" around the primary send
PrimaryCatches(exc) == TRUE

\* a fallback handler that lets the ValueError through
FallbackCatchesNothing(exc) == FALSE

\* "except ValueError" around the second send
FallbackCatches(exc) == exc = "ValueError"

\* try: send_to_slack(final_message)
SendReport ==
    /\ pc = "send"
    /\ \E resp \in MainWebhook :
        LET r == send_to_slack(resp) IN
        /\ posts' = posts + r.posts
        /\ sends' = Append(sends, IF r.raised = "" THEN "ok" ELSE "fail")
        /\ IF r.raised = "" THEN pc' = "done" /\ raised' = raised
           ELSE IF PrimaryCatches(r.raised) THEN pc' = "fallback" /\ raised' = raised
           ELSE pc' = "crashed" /\ raised' = r.raised
    /\ UNCHANGED <<idx, outcomes, lines, parts, quoteVars, sendVars>>

\* except: try: send_to_slack(error_message) except ValueError: pass
SendFallback ==
    /\ pc = "fallback"
    /\ \E resp \in MainWebhook :
        LET r == send_to_slack(resp) IN
        /\ posts' = posts + r.posts
        /\ sends' = Append(sends, IF r.raised = "" THEN "ok" ELSE "fail")
        /\ IF r.raised = "" \/ FallbackCatches(r.raised)
           THEN pc' = "done" /\ raised' = raised
           ELSE pc' = "crashed" /\ raised' = r.raised
    /\ UNCHANGED <<idx, outcomes, lines, parts, quoteVars, sendVars>>

Next ==
    \/ KrStep \/ KrJoin
    \/ UsStep \/ UsJoin
    \/ FxStep \/ FxJoin
    \/ SendReport \/ SendFallback

Spec == Init /\ [][Next]_vars

(***************************************************************************)
(* Properties of one loop pass (under SpecQuote)                           *)
(***************************************************************************)
Called == qfn # "none"

IsStock == qfn \in {"kr", "us"}

FrameOk == qreq.frame = "ok"

Res == qout.res

N == Len(qreq.close)

Cur == qreq.close[N]

Prev == qreq.close[N - 1]

HasRecord == Res.raised = "" /\ Res.data # << >> /\ Res.error = << >>

HasError == Res.raised = "" /\ Res.data = << >> /\ Res.error # << >>

IsInsufficient == HasError /\ Res.error[1].msg = "insufficient"

\* metadata that float() accepts
MetaSound(i) ==
    /\ ~i.raises
    /\ i.high.k \in {"absent", "num", "inf"}
    /\ i.low.k \in {"absent", "num", "inf"}

SignOf(n) == IF n > 0 THEN 1 ELSE IF n < 0 THEN -1 ELSE 0

SignOfFloat(x) == IF Gt0(x) THEN 1 ELSE IF Lt0(x) THEN -1 ELSE 0

\* C4: for every series whose previous close is exactly 0, get_price_data and
\* get_fx_data fail with (None, reason) and never return a quote record.
C4_PrevZeroFails ==
    (Called /\ FrameOk /\ N >= 2 /\ Prev = 0) => HasError

\* C5: with a fetched frame, fewer than 2 close observations (the empty series
\* included) give the insufficient-data result (None, reason) and no record;
\* with 2 or more observations the insufficient-data result is never produced.
C5_InsufficientData ==
    Called =>
        /\ (FrameOk /\ N < 2) => IsInsufficient
        /\ IsInsufficient => (FrameOk /\ N < 2)

C5_Witness == Called /\ FrameOk /\ N = 1 /\ IsInsufficient /\ qout.line = <<FailLine>>

ExactZero == [k |-> "fin", neg |-> FALSE, h |-> 0]

\* the rounded change of "cur" against the element at 0-based position N - Days - 1
WeeklyFromOffset ==
    LET wk == qreq.close[N - Days]
    IN  [k |-> "fin", neg |-> Cur < wk, h |-> RoundHalfEven(Abs(Cur - wk) * 10000, wk)]

\* C6: for every series of length >= 2 with non-zero previous close, the returned
\* weekly_change is exactly 0.0 when the element at position length - days - 1
\* does not exist or is 0, and otherwise (current - weekAgo) / weekAgo * 100
\* rounded to 2 decimals, from exactly that element; the weekly computation
\* raises nothing: get_fx_data returns a record for every such series, and
\* get_price_data does whenever the metadata and the volume series are usable.
C6_WeeklyPolicy ==
    (Called /\ FrameOk /\ N >= 2 /\ Prev # 0) =>
        /\ qfn = "fx" => HasRecord
        /\ (IsStock /\ MetaSound(qreq.info) /\ qreq.volume # << >>) => HasRecord
        /\ HasRecord =>
             Res.data[1].weekly_change =
                 IF N < Days + 1 \/ qreq.close[N - Days] = 0 THEN ExactZero ELSE WeeklyFromOffset
        /\ (HasRecord /\ qreq.close = <<100000, 98000, 102000, 101000, 99000, 103000>>) =>
             /\ Res.data[1].weekly_change = [k |-> "fin", neg |-> FALSE, h |-> 300]
             /\ Res.data[1].daily_change = [k |-> "fin", neg |-> FALSE, h |-> 404]

C6_Witness ==
    /\ IsStock /\ FrameOk /\ N = Days + 2 /\ Prev # 0 /\ HasRecord
    /\ qreq.close[N - Days] = 0 /\ qreq.close[N - Days + 1] # 0 /\ qreq.close[1] # 0
    /\ Res.data[1].weekly_change = ExactZero

\* C7: with at least 2 close observations and an empty volume series,
\* get_price_data still returns a quote record, with volume 0.
C7_EmptyVolumeStillQuotes ==
    (IsStock /\ FrameOk /\ N >= 2 /\ qreq.volume = << >> /\ MetaSound(qreq.info)) =>
        (HasRecord /\ Res.data[1].volume = 0)

\* C9: whatever the provider does, get_price_data and get_fx_data raise nothing
\* and return exactly one of (record, None) and (None, reason).
C9_NeverRaises ==
    Called =>
        /\ Res.raised = ""
        /\ (Res.data = << >>) # (Res.error = << >>)
        /\ Len(Res.data) <= 1 /\ Len(Res.error) <= 1

C9_Witness ==
    /\ IsStock /\ FrameOk /\ N >= 2 /\ qreq.volume # << >>
    /\ qreq.info.high = Null
    /\ HasError /\ Res.error[1].exc = "TypeError"

\* C10 as stated: for every series of length >= 2 with non-zero previous close
\* the sign of the reported daily_change equals sign(current - previous), and
\* the line shows up/"+" , down/"-" or flat accordingly.
C10_SignMatchesDelta ==
    (Called /\ FrameOk /\ N >= 2 /\ Prev # 0 /\ HasRecord) =>
        SignOfFloat(Res.data[1].daily_change) = SignOf(Cur - Prev)

\* C10 amended: the reported daily_change never has the sign opposite to
\* current - previous; it is zero when the change is below 0.005 % in magnitude
\* (it rounds to 0.00) and has the sign of the delta when above; format_change
\* shows a positive value as up with "+", a negative one as down with "-", and
\* zero, every zero delta included, as flat.
C10_SignAfterRounding ==
    (Called /\ FrameOk /\ N >= 2 /\ Prev # 0 /\ HasRecord) =>
        LET d == Res.data[1].daily_change
            delta == Cur - Prev
            sd == SignOfFloat(d)
        IN  /\ d.k = "fin"
            /\ sd \in {SignOf(delta), 0}
            /\ (20000 * Abs(delta) < Prev) => sd = 0
            /\ (20000 * Abs(delta) > Prev) => sd = SignOf(delta)
            /\ qout.line # << >> =>
                 /\ qout.line[1].kind = "ok"
                 /\ sd = 1 => qout.line[1].daily = [indicator |-> "up", sign |-> "+"]
                 /\ sd = -1 => qout.line[1].daily = [indicator |-> "down", sign |-> "-"]
                 /\ sd = 0 => qout.line[1].daily.indicator = "flat"

C10_Witness ==
    /\ Called /\ FrameOk /\ N >= 2 /\ Prev # 0 /\ HasRecord
    /\ Cur > Prev /\ SignOfFloat(Res.data[1].daily_change) = 0
    /\ qout.line # << >> /\ qout.line[1].daily.indicator = "flat"

(***************************************************************************)
(* Properties of send_to_slack (under SpecSend)                            *)
(***************************************************************************)
\* C8 as stated: send_to_slack returns without raising exactly when the
\* response status is 2xx, fails with ValueError otherwise, one post per call.
C8_SuccessIff2xx ==
    sfn = "send_to_slack" =>
        /\ (sres.raised = "") <=> (~sreq.exc /\ sreq.status >= 200 /\ sreq.status <= 299)
        /\ sres.raised \in {"", "ValueError"}
        /\ sres.posts = 1

\* C8 amended: send_to_slack returns without raising exactly when the response
\* status is 200; on every other status (the other 2xx included) and on every
\* transport exception it fails with ValueError; it makes one post per call.
C8_SuccessIff200 ==
    sfn = "send_to_slack" =>
        /\ (sres.raised = "") <=> (~sreq.exc /\ sreq.status = 200)
        /\ sres.raised \in {"", "ValueError"}
        /\ sres.posts = 1

C8_Witness ==
    /\ sfn = "send_to_slack" /\ ~sreq.exc /\ sreq.status = 204
    /\ sres.raised = "ValueError" /\ sres.posts = 1

(***************************************************************************)
(* Properties of main (under Spec)                                         *)
(***************************************************************************)
Joined(g) == \E k \in 1..Len(parts) : parts[k] = g

\* C1: whatever the symbols' outcomes, each group's part of the report holds
\* one line per configured symbol (a success line per symbol that returned
\* data, a failure line per symbol that returned an error), all three groups
\* are processed, and no symbol's data makes main() raise.
C1_Resilience ==
    /\ raised = ""
    /\ \A g \in Groups :
        Joined(g) =>
            /\ lines[g].ok + lines[g].fail = GroupSize(g)
            /\ lines[g].ok = outcomes[g].ok
            /\ lines[g].fail = outcomes[g].fail
    /\ pc \in {"send", "fallback", "done"} => parts = <<"kr", "us", "fx">>

\* C2: main() makes at most 2 send attempts; the second is made only after the
\* first failed, and is made whenever the first failed; a failure of the second
\* is swallowed: main() ends without raising.
C2_Fallback ==
    /\ Len(sends) <= 2 /\ posts = Len(sends)
    /\ Len(sends) = 2 => (sends[1] = "fail" /\ pc = "done")
    /\ (pc = "done" /\ sends[1] = "fail") => Len(sends) = 2
    /\ (pc = "done" /\ sends[1] = "ok") => Len(sends) = 1
    /\ pc = "fallback" => sends = <<"fail">>
    /\ Len(sends) >= 1 => (raised = "" /\ pc # "crashed")
    /\ pc = "done" => Len(sends) >= 1

C2_Witness == pc = "done" /\ sends = <<"fail", "fail">> /\ raised = "" /\ posts = 2

\* C3: an exception raised during report assembly (before the three groups are
\* joined) is followed by one send_to_slack attempt carrying the failure notice.
C3_AssemblyFailureNotified ==
    (raised # "" /\ Len(parts) < 3) => Len(sends) >= 1

====
